---- MODULE Spec2Model ----
(***************************************************************************)
(* Webhook reconciliation of the TalkProfit payment server (src/server.js). *)
(* The ledger store (Supabase tables wallets, withdrawal_requests,          *)
(* transactions) is the shared state; every webhook delivery is a request   *)
(* that runs the /webhook handler, and inside it handleTransferPaid or      *)
(* handleTransferFailed, one store call (one await) per step.               *)
(* Amounts are in minor units (cents).                                      *)
(***************************************************************************)
EXTENDS Integers, Sequences, FiniteSets, TLC

VARIABLES
    withdrawal_requests, \* table withdrawal_requests: id -> row
    wallets,             \* table wallets: user_id -> row (users with a wallet)
    transactions,        \* table transactions: id -> row
    webhookSecret,       \* process.env.STRIPE_WEBHOOK_SECRET is set
    req,                 \* the webhook requests in flight, one per slot
    now,                 \* the clock read by new Date()
    delivered,           \* number of webhook requests received so far
    faults,              \* number of store calls that failed so far
    dispatched,          \* history: events handed to a handler, per transfer
    pre,                 \* history: the ledger when the last request that found
                         \*   no other in flight came in
    overlaps,            \* history: requests that came in while another was
                         \*   in flight
    prev,                \* history: the event of the request that held the
                         \*   slot before the one that came in last
    nwrites,             \* history: accepted writes per table and row
    ledger0,             \* history: the ledger when the server started
    secretKey,           \* process.env.STRIPE_SECRET_KEY is set
    hits,                \* paymentLimiter: requests counted in the window
    intent,              \* the last POST /create-payment-intent exchange
    created,             \* history: payment intents the processor was asked for
    payout,              \* the last POST /stripe/process-withdrawal exchange
    transferred          \* history: transfers the processor was asked for

ledger == <<withdrawal_requests, wallets, transactions>>
\* what only the arrival of a request changes
received == <<webhookSecret, now, delivered, dispatched, pre, overlaps, prev,
              ledger0>>
\* the state of the payment endpoints
api == <<secretKey, hits, intent, created, payout, transferred>>
\* the state of the webhook and its handlers
hooks == <<req, faults, nwrites, received>>
vars == <<withdrawal_requests, wallets, transactions, webhookSecret, req, now,
          delivered, faults, dispatched, pre, overlaps, prev, nwrites, ledger0,
          secretKey, hits, intent, created, payout, transferred>>

----------------------------------------------------------------------------
(* Bounds of the model *)

MaxInFlight == 2      \* webhook requests processed concurrently
MaxDeliveries == 2    \* webhook requests received in one run
MaxFaults == 1        \* store calls that fail in one run
MaxPosts == 6         \* payment requests from one address in one limiter window

Slots == 1..MaxInFlight

(* The data the runs draw from *)

Users == {"U1", "U2"}
WIds == {"W1", "W2"}
XIds == {"X1", "X2", "X3"}
TransferIds == {"T1", "T2", "T9"}     \* T9 matches no withdrawal request
NoMsg == "undefined"
Messages == {NoMsg, "", "account_closed"}

NoRow == [id |-> "NoRow"]
NoEvent == [type |-> "none"]

----------------------------------------------------------------------------
(* The events Stripe delivers *)

OtherTypes ==
    {"payment_intent.succeeded", "payment_intent.payment_failed",
     "payment_intent.requires_action", "transfer.created", "payout.paid",
     "payout.failed", "charge.refunded"}

TransferObjects ==
    [id : TransferIds, status : {"paid", "pending"}, failure_message : {NoMsg}]
    \cup [id : TransferIds, status : {"failed"}, failure_message : Messages]

Events ==
    [type : {"transfer.updated"}, object : TransferObjects]
    \cup [type : OtherTypes, object : {[id |-> "obj_1"]}]

----------------------------------------------------------------------------
(* The ledger store, as the handlers query it *)

\* .update(fields) applied to one row: the named columns change, the rest stay
Merge(row, fields) ==
    [k \in DOMAIN row |-> IF k \in DOMAIN fields THEN fields[k] ELSE row[k]]

\* slip: the .eq('stripe_transfer_id', ..) filter left out, so a row always comes back
FindWithdrawalUnfiltered(tid) == withdrawal_requests[CHOOSE w \in WIds : TRUE]

\* from('withdrawal_requests').select('*').eq('stripe_transfer_id', id).single():
\* the row when exactly one matches, otherwise an error and no data
FindWithdrawalByTransferId(tid) ==
    LET m == {w \in WIds : withdrawal_requests[w].stripe_transfer_id = tid}
    IN  IF Cardinality(m) = 1
        THEN withdrawal_requests[CHOOSE w \in m : TRUE]
        ELSE NoRow

\* slip: a missing wallet read as a balance of zero
GetWalletOrZero(uid) ==
    IF uid \in DOMAIN wallets
    THEN [id |-> uid, earnings |-> wallets[uid].earnings]
    ELSE [id |-> uid, earnings |-> 0]

\* from('wallets').select('earnings').eq('user_id', uid).single()
GetWallet(uid) ==
    IF uid \in DOMAIN wallets
    THEN [id |-> uid, earnings |-> wallets[uid].earnings]
    ELSE NoRow

\* slip: the update without its .eq('user_id', uid) filter
UpdateWalletAll(uid, earnings) ==
    [u \in DOMAIN wallets |-> [wallets[u] EXCEPT !.earnings = earnings]]

\* from('wallets').update({ earnings }).eq('user_id', uid)
UpdateWallet(uid, earnings) ==
    [u \in DOMAIN wallets |->
        IF u = uid THEN [wallets[u] EXCEPT !.earnings = earnings] ELSE wallets[u]]

\* from('withdrawal_requests').update(fields).eq('id', id)
UpdateWithdrawalStatus(id, fields) ==
    [w \in WIds |->
        IF withdrawal_requests[w].id = id
        THEN Merge(withdrawal_requests[w], fields)
        ELSE withdrawal_requests[w]]

\* the rows from('transactions').update(..).eq('from_user_id', uid)
\*   .eq('amount', -amount).eq('transaction_type', 'withdrawal') selects
MatchingTransactions(uid, amount) ==
    {x \in XIds : /\ transactions[x].from_user_id = uid
                  /\ transactions[x].amount = -amount
                  /\ transactions[x].transaction_type = "withdrawal"}

UpdateTransactionDescription(uid, amount, description) ==
    [x \in XIds |->
        IF x \in MatchingTransactions(uid, amount)
        THEN [transactions[x] EXCEPT !.description = description]
        ELSE transactions[x]]

\* amount.toFixed(2): whole units and two decimals
ToFixed2(cents) == <<cents \div 100, cents % 100>>

\* `Withdrawal completed: $${amount.toFixed(2)} (${transfer.id})`
CompletedDescription(amount, tid) ==
    [text |-> "Withdrawal completed", amount |-> ToFixed2(amount), transfer |-> tid]

\* `Withdrawal failed - refunded: $${amount.toFixed(2)} (${transfer.id})`
RefundedDescription(amount, tid) ==
    [text |-> "Withdrawal failed - refunded", amount |-> ToFixed2(amount),
     transfer |-> tid]

\* slip: the status literal of the other handler
CompletedFieldsAsFailed(t) == [status |-> "failed", processed_at |-> t]

\* { status: 'completed', processed_at: new Date().toISOString() }
CompletedFields(t) == [status |-> "completed", processed_at |-> t]

\* transfer.failure_message || 'Transfer failed'
FailureReason(transfer) ==
    IF transfer.failure_message \in {NoMsg, ""}
    THEN "Transfer failed"
    ELSE transfer.failure_message

\* { status: 'failed', failure_reason: .., processed_at: new Date().toISOString() }
FailedFields(transfer, t) ==
    [status |-> "failed", failure_reason |-> FailureReason(transfer),
     processed_at |-> t]

\* slip: the refund replaces the balance instead of adding to it
RefundedEarningsOverwrite(wallet, withdrawalRequest) == withdrawalRequest.amount

\* const refundedEarnings = wallet.earnings + withdrawalRequest.amount
RefundedEarnings(wallet, withdrawalRequest) ==
    wallet.earnings + withdrawalRequest.amount

----------------------------------------------------------------------------
(* The ledger when the server starts: two pending withdrawals, the amounts   *)
(* already debited, one withdrawal transaction each and one other payment.  *)

InitialDescription(amount) ==
    [text |-> "Withdrawal requested", amount |-> ToFixed2(amount), transfer |-> "-"]

\* W1 belongs to U1; W2 to the same user (with the same or another amount) or
\* to U2, whose wallet row may be missing
Scenarios ==
    {[user2 |-> "U1", amount2 |-> 5000, wallets |-> {"U1", "U2"}],
     [user2 |-> "U1", amount2 |-> 3000, wallets |-> {"U1", "U2"}],
     [user2 |-> "U2", amount2 |-> 3000, wallets |-> {"U1", "U2"}],
     [user2 |-> "U2", amount2 |-> 5000, wallets |-> {"U1"}]}

IdleRequest ==
    [pc |-> "idle", event |-> NoEvent, withdrawalRequest |-> NoRow,
     wallet |-> NoRow, response |-> "none", outcome |-> "none", wrote |-> 0,
     sigOk |-> TRUE]

NoIntent == [status |-> 0]
NoPayout == [status |-> 0]

\* the payment endpoints before any request
InitApi ==
    /\ hits = 0
    /\ intent = NoIntent
    /\ created = 0
    /\ payout = NoPayout
    /\ transferred = 0

InitHooks ==
    /\ \E sc \in Scenarios :
       LET u2 == sc.user2
           a2 == sc.amount2
       IN
         /\ withdrawal_requests =
              [w \in WIds |->
                 [id |-> w,
                  user_id |-> IF w = "W1" THEN "U1" ELSE u2,
                  amount |-> IF w = "W1" THEN 5000 ELSE a2,
                  stripe_transfer_id |-> IF w = "W1" THEN "T1" ELSE "T2",
                  status |-> "pending",
                  failure_reason |-> "null",
                  processed_at |-> 0]]
         /\ transactions =
              [x \in XIds |->
                 [id |-> x,
                  from_user_id |-> IF x = "X2" THEN u2 ELSE "U1",
                  amount |-> IF x = "X2" THEN -a2 ELSE -5000,
                  transaction_type |-> IF x = "X3" THEN "call_payment" ELSE "withdrawal",
                  description |->
                      IF x = "X3"
                      THEN [text |-> "Call payment", amount |-> ToFixed2(5000),
                            transfer |-> "-"]
                      ELSE InitialDescription(IF x = "X2" THEN a2 ELSE 5000)]]
         /\ wallets = [u \in sc.wallets |-> [user_id |-> u, earnings |-> 12000]]
    /\ webhookSecret \in BOOLEAN
    /\ req = [s \in Slots |-> IdleRequest]
    /\ now = 1
    /\ delivered = 0
    /\ faults = 0
    /\ dispatched = [t \in TransferIds |-> [paid |-> 0, failed |-> 0, msg |-> NoMsg]]
    /\ overlaps = 0
    /\ prev = NoEvent
    /\ pre = [withdrawal_requests |-> withdrawal_requests,
              wallets |-> wallets,
              transactions |-> transactions]
    /\ nwrites = [wallets |-> [u \in Users |-> 0],
                  withdrawal_requests |-> [w \in WIds |-> 0],
                  transactions |-> [x \in XIds |-> 0]]
    /\ ledger0 = [withdrawal_requests |-> withdrawal_requests,
                  wallets |-> wallets,
                  transactions |-> transactions]

Init == InitHooks /\ InitApi /\ secretKey = TRUE

----------------------------------------------------------------------------
(* POST /webhook *)

Ack == "200 received"
BadSignature == "400 invalid signature"

\* What one store call can answer: its result, an { error }, or a rejected
\* promise (an exception at the await)
CallResults == {"ok"} \cup (IF faults < MaxFaults THEN {"error", "throw"} ELSE {})

CountFault(r) == faults' = IF r = "ok" THEN faults ELSE faults + 1

\* res.json({ received: true }) at the end of the webhook
Respond(r) == [r EXCEPT !.pc = "done", !.response = Ack]

\* How a handler ended (what it logged): "ok", "lookup_miss" and "wallet_miss"
\* when every store call answered, the others when one failed
FaultOutcomes ==
    {"lookup_error", "wallet_error", "store_error", "txn_error", "caught"}

\* a handler returns (its locals are gone) and the webhook, resumed from its
\* await in the same turn of the event loop, answers
Return(r, outcome) ==
    Respond([r EXCEPT !.outcome = outcome,
                      !.withdrawalRequest = NoRow, !.wallet = NoRow])

\* slip: no try/catch, the rejection leaves the handler and the webhook
\* never answers
CaughtRethrown(r) ==
    [r EXCEPT !.pc = "done", !.outcome = "raised", !.response = "500 error",
              !.withdrawalRequest = NoRow, !.wallet = NoRow]

\* catch (error) { console.error(..) }: the handler swallows the exception
Caught(r) == Return(r, "caught")

\* res.json({ received: true }) with no handler awaited
Acknowledged(ev) == Respond([IdleRequest EXCEPT !.event = ev])

\* slip: a plain else where the code has else if (status === 'failed')
DispatchAnyStatus(ev) ==
    IF ev.type = "transfer.updated" /\ ev.object.status = "paid"
    THEN [IdleRequest EXCEPT !.pc = "paid_find", !.event = ev]
    ELSE IF ev.type = "transfer.updated"
    THEN [IdleRequest EXCEPT !.pc = "failed_find", !.event = ev]
    ELSE Respond([IdleRequest EXCEPT !.event = ev])

\* slip: the handlers are called without await, the answer is sent at once
DispatchNoAwait(ev) ==
    IF ev.type = "transfer.updated" /\ ev.object.status = "paid"
    THEN [IdleRequest EXCEPT !.pc = "paid_find", !.event = ev, !.response = Ack]
    ELSE IF ev.type = "transfer.updated" /\ ev.object.status = "failed"
    THEN [IdleRequest EXCEPT !.pc = "failed_find", !.event = ev, !.response = Ack]
    ELSE Respond([IdleRequest EXCEPT !.event = ev])

\* switch (event.type): only transfer.updated with status paid or failed
\* reaches a handler
Dispatch(ev) ==
    IF ev.type = "transfer.updated" /\ ev.object.status = "paid"
    THEN [IdleRequest EXCEPT !.pc = "paid_find", !.event = ev]
    ELSE IF ev.type = "transfer.updated" /\ ev.object.status = "failed"
    THEN [IdleRequest EXCEPT !.pc = "failed_find", !.event = ev]
    ELSE Acknowledged(ev)

\* slip: the event is parsed from the body without constructEvent's check
WebhookNoVerify(ev, sigOk) ==
    IF ~webhookSecret
    THEN Respond(IdleRequest)
    ELSE IF ev.type = "transfer.updated" /\ ev.object.status = "paid"
    THEN [IdleRequest EXCEPT !.pc = "paid_find", !.event = ev]
    ELSE IF ev.type = "transfer.updated" /\ ev.object.status = "failed"
    THEN [IdleRequest EXCEPT !.pc = "failed_find", !.event = ev]
    ELSE Respond([IdleRequest EXCEPT !.event = ev])

\* the handler up to the switch: secret check, signature check, dispatch
Webhook(ev, sigOk) ==
    IF ~webhookSecret
    THEN Respond(IdleRequest)
    ELSE IF ~sigOk
    THEN [IdleRequest EXCEPT !.pc = "done", !.response = BadSignature]
    ELSE Dispatch(ev)

Receive(s) ==
    /\ req[s].pc \in {"idle", "done"}
    /\ \A t \in Slots : t < s => req[t].pc \notin {"idle", "done"}
    /\ delivered < MaxDeliveries
    /\ \E ev \in Events, sigOk \in BOOLEAN :
         LET r == Webhook(ev, sigOk)
         IN  /\ req' = [req EXCEPT ![s] = [r EXCEPT !.sigOk = sigOk]]
             /\ dispatched' =
                  IF /\ r.pc \in {"paid_find", "failed_find"}
                     /\ ev.type = "transfer.updated"
                     /\ ev.object.status \in {"paid", "failed"}
                  THEN [dispatched EXCEPT
                          ![ev.object.id][ev.object.status] = @ + 1,
                          ![ev.object.id].msg =
                              IF ev.object.status = "failed"
                              THEN ev.object.failure_message ELSE @]
                  ELSE dispatched
    /\ delivered' = delivered + 1
    /\ now' = now + 1
    /\ pre' = IF \A t \in Slots : req[t].pc \in {"idle", "done"}
               THEN [withdrawal_requests |-> withdrawal_requests,
                     wallets |-> wallets,
                     transactions |-> transactions]
               ELSE pre
    /\ overlaps' = IF \A t \in Slots : req[t].pc \in {"idle", "done"}
                    THEN overlaps ELSE overlaps + 1
    /\ prev' = req[s].event
    /\ UNCHANGED <<ledger, webhookSecret, faults, nwrites, ledger0, api>>

\* history of accepted writes
Wrote(table, rows) ==
    nwrites' = [nwrites EXCEPT ![table] =
                  [k \in DOMAIN nwrites[table] |->
                     IF k \in rows THEN nwrites[table][k] + 1 ELSE nwrites[table][k]]]

----------------------------------------------------------------------------
(* handleTransferPaid, one step per store call *)

PaidFind(s) ==
    /\ req[s].pc = "paid_find"
    /\ \E r \in CallResults :
         /\ CountFault(r)
         /\ LET row == FindWithdrawalByTransferId(req[s].event.object.id)
            IN  req' = [req EXCEPT ![s] =
                  IF r = "throw" THEN Caught(@)
                  ELSE IF r = "error" THEN Return(@, "lookup_error")
                  ELSE IF row = NoRow THEN Return(@, "lookup_miss")
                  ELSE [@ EXCEPT !.pc = "paid_wallet", !.withdrawalRequest = row]]
    /\ UNCHANGED <<ledger, nwrites, received, api>>

PaidWallet(s) ==
    /\ req[s].pc = "paid_wallet"
    /\ \E r \in CallResults :
         /\ CountFault(r)
         /\ LET row == GetWallet(req[s].withdrawalRequest.user_id)
            IN  req' = [req EXCEPT ![s] =
                  IF r = "throw" THEN Caught(@)
                  ELSE IF r = "error" THEN Return(@, "wallet_error")
                  ELSE IF row = NoRow THEN Return(@, "wallet_miss")
                  ELSE [@ EXCEPT !.pc = "paid_update", !.wallet = row]]
    /\ UNCHANGED <<ledger, nwrites, received, api>>

\* slip: a rejected status update is tried again
PaidUpdateRetry(s) ==
    /\ req[s].pc = "paid_update"
    /\ \E r \in CallResults :
         /\ CountFault(r)
         /\ IF r = "ok"
            THEN /\ withdrawal_requests' =
                      UpdateWithdrawalStatus(req[s].withdrawalRequest.id,
                                             CompletedFields(now))
                 /\ Wrote("withdrawal_requests", {req[s].withdrawalRequest.id})
                 /\ req' = [req EXCEPT ![s].pc = "paid_txn", ![s].wrote = @ + 1]
            ELSE /\ UNCHANGED <<withdrawal_requests, nwrites>>
                 /\ req' = [req EXCEPT ![s] =
                       IF r = "throw" THEN Caught(@) ELSE @]
    /\ UNCHANGED <<wallets, transactions, received, api>>

PaidUpdate(s) ==
    /\ req[s].pc = "paid_update"
    /\ \E r \in CallResults :
         /\ CountFault(r)
         /\ IF r = "ok"
            THEN /\ withdrawal_requests' =
                      UpdateWithdrawalStatus(req[s].withdrawalRequest.id,
                                             CompletedFields(now))
                 /\ Wrote("withdrawal_requests", {req[s].withdrawalRequest.id})
                 /\ req' = [req EXCEPT ![s].pc = "paid_txn", ![s].wrote = @ + 1]
            ELSE /\ UNCHANGED <<withdrawal_requests, nwrites>>
                 /\ req' = [req EXCEPT ![s] =
                       IF r = "throw" THEN Caught(@) ELSE Return(@, "store_error")]
    /\ UNCHANGED <<wallets, transactions, received, api>>

PaidTxn(s) ==
    /\ req[s].pc = "paid_txn"
    /\ \E r \in CallResults :
         /\ CountFault(r)
         /\ LET wr == req[s].withdrawalRequest
            IN  IF r = "ok"
                THEN /\ transactions' =
                          UpdateTransactionDescription(wr.user_id, wr.amount,
                              CompletedDescription(wr.amount, req[s].event.object.id))
                     /\ Wrote("transactions", MatchingTransactions(wr.user_id, wr.amount))
                     /\ req' = [req EXCEPT ![s] =
                                  Return([@ EXCEPT !.wrote = @ + 1], "ok")]
                ELSE /\ UNCHANGED <<transactions, nwrites>>
                     /\ req' = [req EXCEPT ![s] =
                           IF r = "throw" THEN Caught(@) ELSE Return(@, "txn_error")]
    /\ UNCHANGED <<withdrawal_requests, wallets, received, api>>

----------------------------------------------------------------------------
(* handleTransferFailed, one step per store call *)

FailedFind(s) ==
    /\ req[s].pc = "failed_find"
    /\ \E r \in CallResults :
         /\ CountFault(r)
         /\ LET row == FindWithdrawalByTransferId(req[s].event.object.id)
            IN  req' = [req EXCEPT ![s] =
                  IF r = "throw" THEN Caught(@)
                  ELSE IF r = "error" THEN Return(@, "lookup_error")
                  ELSE IF row = NoRow THEN Return(@, "lookup_miss")
                  ELSE [@ EXCEPT !.pc = "failed_wallet", !.withdrawalRequest = row]]
    /\ UNCHANGED <<ledger, nwrites, received, api>>

\* slip: the refund step left out, the status update follows the wallet read
FailedWalletSkipsRefund(s) ==
    /\ req[s].pc = "failed_wallet"
    /\ \E r \in CallResults :
         /\ CountFault(r)
         /\ LET row == GetWallet(req[s].withdrawalRequest.user_id)
            IN  req' = [req EXCEPT ![s] =
                  IF r = "throw" THEN Caught(@)
                  ELSE IF r = "error" THEN Return(@, "wallet_error")
                  ELSE IF row = NoRow THEN Return(@, "wallet_miss")
                  ELSE [@ EXCEPT !.pc = "failed_update", !.wallet = row]]
    /\ UNCHANGED <<ledger, nwrites, received, api>>

FailedWallet(s) ==
    /\ req[s].pc = "failed_wallet"
    /\ \E r \in CallResults :
         /\ CountFault(r)
         /\ LET row == GetWallet(req[s].withdrawalRequest.user_id)
            IN  req' = [req EXCEPT ![s] =
                  IF r = "throw" THEN Caught(@)
                  ELSE IF r = "error" THEN Return(@, "wallet_error")
                  ELSE IF row = NoRow THEN Return(@, "wallet_miss")
                  ELSE [@ EXCEPT !.pc = "failed_refund", !.wallet = row]]
    /\ UNCHANGED <<ledger, nwrites, received, api>>

\* slip: the rejected refund is logged without the return
FailedRefundNoReturn(s) ==
    /\ req[s].pc = "failed_refund"
    /\ \E r \in CallResults :
         /\ CountFault(r)
         /\ LET wr == req[s].withdrawalRequest
            IN  IF r = "ok"
                THEN /\ wallets' = UpdateWallet(wr.user_id,
                                       RefundedEarnings(req[s].wallet, wr))
                     /\ Wrote("wallets", {wr.user_id} \cap DOMAIN wallets)
                     /\ req' = [req EXCEPT ![s].pc = "failed_update",
                                           ![s].wrote = @ + 1]
                ELSE /\ UNCHANGED <<wallets, nwrites>>
                     /\ req' = [req EXCEPT ![s] =
                           IF r = "throw" THEN Caught(@)
                           ELSE [@ EXCEPT !.pc = "failed_update"]]
    /\ UNCHANGED <<withdrawal_requests, transactions, received, api>>

FailedRefund(s) ==
    /\ req[s].pc = "failed_refund"
    /\ \E r \in CallResults :
         /\ CountFault(r)
         /\ LET wr == req[s].withdrawalRequest
            IN  IF r = "ok"
                THEN /\ wallets' = UpdateWallet(wr.user_id,
                                       RefundedEarnings(req[s].wallet, wr))
                     /\ Wrote("wallets", {wr.user_id} \cap DOMAIN wallets)
                     /\ req' = [req EXCEPT ![s].pc = "failed_update",
                                           ![s].wrote = @ + 1]
                ELSE /\ UNCHANGED <<wallets, nwrites>>
                     /\ req' = [req EXCEPT ![s] =
                           IF r = "throw" THEN Caught(@) ELSE Return(@, "store_error")]
    /\ UNCHANGED <<withdrawal_requests, transactions, received, api>>

FailedUpdate(s) ==
    /\ req[s].pc = "failed_update"
    /\ \E r \in CallResults :
         /\ CountFault(r)
         /\ IF r = "ok"
            THEN /\ withdrawal_requests' =
                      UpdateWithdrawalStatus(req[s].withdrawalRequest.id,
                                             FailedFields(req[s].event.object, now))
                 /\ Wrote("withdrawal_requests", {req[s].withdrawalRequest.id})
                 /\ req' = [req EXCEPT ![s].pc = "failed_txn", ![s].wrote = @ + 1]
            ELSE /\ UNCHANGED <<withdrawal_requests, nwrites>>
                 /\ req' = [req EXCEPT ![s] =
                       IF r = "throw" THEN Caught(@) ELSE Return(@, "store_error")]
    /\ UNCHANGED <<wallets, transactions, received, api>>

\* slip: a rejected description update puts the request row back as read
FailedTxnRollback(s) ==
    /\ req[s].pc = "failed_txn"
    /\ \E r \in CallResults :
         /\ CountFault(r)
         /\ LET wr == req[s].withdrawalRequest
            IN  IF r = "ok"
                THEN /\ transactions' =
                          UpdateTransactionDescription(wr.user_id, wr.amount,
                              RefundedDescription(wr.amount, req[s].event.object.id))
                     /\ Wrote("transactions", MatchingTransactions(wr.user_id, wr.amount))
                     /\ req' = [req EXCEPT ![s] =
                                  Return([@ EXCEPT !.wrote = @ + 1], "ok")]
                     /\ UNCHANGED withdrawal_requests
                ELSE /\ UNCHANGED <<transactions, nwrites>>
                     /\ withdrawal_requests' =
                          [withdrawal_requests EXCEPT ![wr.id] = wr]
                     /\ req' = [req EXCEPT ![s] =
                           IF r = "throw" THEN Caught(@) ELSE Return(@, "txn_error")]
    /\ UNCHANGED <<wallets, received, api>>

FailedTxn(s) ==
    /\ req[s].pc = "failed_txn"
    /\ \E r \in CallResults :
         /\ CountFault(r)
         /\ LET wr == req[s].withdrawalRequest
            IN  IF r = "ok"
                THEN /\ transactions' =
                          UpdateTransactionDescription(wr.user_id, wr.amount,
                              RefundedDescription(wr.amount, req[s].event.object.id))
                     /\ Wrote("transactions", MatchingTransactions(wr.user_id, wr.amount))
                     /\ req' = [req EXCEPT ![s] =
                                  Return([@ EXCEPT !.wrote = @ + 1], "ok")]
                ELSE /\ UNCHANGED <<transactions, nwrites>>
                     /\ req' = [req EXCEPT ![s] =
                           IF r = "throw" THEN Caught(@) ELSE Return(@, "txn_error")]
    /\ UNCHANGED <<withdrawal_requests, wallets, received, api>>

----------------------------------------------------------------------------
(* The server: any number of deliveries in flight, their store calls          *)
(* interleaved in any order                                                  *)

Step(s) ==
    \/ PaidFind(s) \/ PaidWallet(s) \/ PaidUpdate(s) \/ PaidTxn(s)
    \/ FailedFind(s) \/ FailedWallet(s) \/ FailedRefund(s) \/ FailedUpdate(s)
    \/ FailedTxn(s)

Next == \E s \in Slots : Receive(s) \/ Step(s)

Spec == Init /\ [][Next]_vars

(* Deliveries one after another: a request is received only when no other    *)
(* is in flight                                                              *)

Quiescent == \A s \in Slots : req[s].pc \in {"idle", "done"}

ReceiveSeq == Quiescent /\ Receive(1)

NextSeq == ReceiveSeq \/ Step(1)

SpecSeq == Init /\ [][NextSeq]_vars

(* Concurrent deliveries in which every store call eventually returns:     *)
(* a handler that waits on a store call is eventually resumed               *)

\* one failed and one paid transfer, a type without handler, and (NoEvent)
\* the requests that are answered before an event is parsed
LiveEvents ==
    {[type |-> "transfer.updated",
      object |-> [id |-> "T1", status |-> "failed", failure_message |-> NoMsg]],
     [type |-> "transfer.updated",
      object |-> [id |-> "T2", status |-> "paid", failure_message |-> NoMsg]],
     [type |-> "payout.paid", object |-> [id |-> "obj_1"]],
     NoEvent}

\* W1 of U1 and W2 of U2, both with a wallet
InitLive ==
    /\ Init
    /\ withdrawal_requests["W2"].user_id = "U2"
    /\ DOMAIN wallets = Users

ReceiveLive(s) == Receive(s) /\ req'[s].event \in LiveEvents

NextLive == \E s \in Slots : ReceiveLive(s) \/ Step(s)

Fairness == \A s \in Slots : WF_vars(Step(s))

SpecLive == InitLive /\ [][NextLive]_vars /\ Fairness

----------------------------------------------------------------------------
(* POST /create-payment-intent *)

\* JavaScript values a JSON body can hold for amount and userId
Num(n) == [t |-> "number", n |-> n, s |-> ""]
Str(x) == [t |-> "string", n |-> 0, s |-> x]
Undefined == [t |-> "undefined", n |-> 0, s |-> ""]

AmountInputs ==
    {Num(n) : n \in {-500, 0, 1, 99, 100, 2500, 100000, 100001}}
    \cup {Str("2500"), Str(""), Undefined}

UserIdInputs == {Str("user_123"), Str(""), Num(123), Undefined}

\* !x
Falsy(x) ==
    \/ x.t = "undefined"
    \/ x.t = "number" /\ x.n = 0
    \/ x.t = "string" /\ x.s = ""

\* what stripe.paymentIntents.create can answer
StripeResults == {"ok", "api_key_invalid", "rate_limit", "card_declined"}

PaymentLimiterMax == 5
MinAmount == 100
MaxAmount == 100000

\* slip: the upper limit on the amount is not tested
ValidateNoMaximum(amount, userId) ==
    IF ~secretKey THEN [status |-> 500, error |-> "Payment service not configured"]
    ELSE IF Falsy(amount) \/ amount.t # "number"
    THEN [status |-> 400, error |-> "Invalid amount format"]
    ELSE IF amount.n < MinAmount
    THEN [status |-> 400, error |-> "Minimum amount is $1.00"]
    ELSE IF Falsy(userId) \/ userId.t # "string"
    THEN [status |-> 400, error |-> "Valid user ID required"]
    ELSE [status |-> 200, error |-> ""]

\* the validation of the request body, in the order of the code
Validate(amount, userId) ==
    IF ~secretKey THEN [status |-> 500, error |-> "Payment service not configured"]
    ELSE IF Falsy(amount) \/ amount.t # "number"
    THEN [status |-> 400, error |-> "Invalid amount format"]
    ELSE IF amount.n < MinAmount
    THEN [status |-> 400, error |-> "Minimum amount is $1.00"]
    ELSE IF amount.n > MaxAmount
    THEN [status |-> 400, error |-> "Maximum amount is $1000.00"]
    ELSE IF Falsy(userId) \/ userId.t # "string"
    THEN [status |-> 400, error |-> "Valid user ID required"]
    ELSE [status |-> 200, error |-> ""]

\* the catch block: the answer to a failed processor call
IntentError(code) ==
    IF code = "api_key_invalid"
    THEN [status |-> 500, error |-> "Payment service configuration error"]
    ELSE IF code = "rate_limit"
    THEN [status |-> 429, error |-> "Service temporarily busy, please try again"]
    ELSE [status |-> 500, error |-> "Unable to process payment request"]

\* paymentLimiter, then the handler; the processor call and its answer are
\* one step, no shared state is read after the await
CreatePaymentIntent ==
    /\ hits < MaxPosts
    /\ hits' = hits + 1
    /\ \E amount \in AmountInputs, userId \in UserIdInputs, res \in StripeResults :
         LET v == Validate(amount, userId)
             limited == hits + 1 > PaymentLimiterMax
             called == ~limited /\ v.status = 200
             answer == IF limited
                       THEN [status |-> 429, error |-> "Too many payment attempts"]
                       ELSE IF ~called \/ res = "ok" THEN v
                       ELSE IntentError(res)
         IN  /\ intent' = [amount |-> amount, userId |-> userId,
                           status |-> answer.status, error |-> answer.error,
                           called |-> called, limited |-> limited]
             /\ created' = IF called THEN created + 1 ELSE created
    /\ UNCHANGED <<ledger, hooks, secretKey, payout, transferred>>

NextApi == CreatePaymentIntent

\* STRIPE_SECRET_KEY may or may not be set in the environment
InitAnyKey == InitHooks /\ InitApi /\ secretKey \in BOOLEAN

SpecApi == InitAnyKey /\ [][NextApi]_vars

----------------------------------------------------------------------------
(* POST /stripe/process-withdrawal *)

\* a number of dollars, held in thousandths of a dollar
Dollars(m) == [t |-> "number", n |-> m, s |-> ""]

WithdrawalAmountInputs ==
    {Dollars(m) : m \in {-1000, 0, 4, 994, 995, 1000, 25000}}
    \cup {Str("10"), Undefined}

AccountIdInputs == {Str("acct_1"), Str(""), Num(7), Undefined}

\* Math.round(amount * 100), halves rounded up
AmountInCents(amount) == (amount.n + 5) \div 10

MinCents == 100

\* what stripe.transfers.create can answer
TransferResults == {"ok", "insufficient_funds", "account_invalid", "api_error"}

\* slip: the minimum of $1.00 is not tested
ValidateWithdrawalNoMinimum(accountId, amount) ==
    IF Falsy(accountId) \/ accountId.t # "string"
    THEN [status |-> 400, error |-> "Valid account ID required"]
    ELSE IF Falsy(amount) \/ amount.t # "number" \/ amount.n =< 0
    THEN [status |-> 400, error |-> "Valid amount required"]
    ELSE [status |-> 200, error |-> ""]

\* the validation of the request body, in the order of the code
ValidateWithdrawal(accountId, amount) ==
    IF Falsy(accountId) \/ accountId.t # "string"
    THEN [status |-> 400, error |-> "Valid account ID required"]
    ELSE IF Falsy(amount) \/ amount.t # "number" \/ amount.n =< 0
    THEN [status |-> 400, error |-> "Valid amount required"]
    ELSE IF AmountInCents(amount) < MinCents
    THEN [status |-> 400, error |-> "Minimum withdrawal amount is $1.00"]
    ELSE [status |-> 200, error |-> ""]

\* the catch block: the answer to a failed processor call
TransferError(code) ==
    IF code = "insufficient_funds"
    THEN [status |-> 400, error |-> "Insufficient funds in Stripe account"]
    ELSE IF code = "account_invalid"
    THEN [status |-> 400, error |-> "Invalid Stripe Connect account"]
    ELSE [status |-> 500, error |-> "Failed to process withdrawal"]

\* paymentLimiter, then the handler; the only await is the processor call,
\* and no table is read or written
ProcessWithdrawal ==
    /\ hits < MaxPosts
    /\ hits' = hits + 1
    /\ \E accountId \in AccountIdInputs, amount \in WithdrawalAmountInputs,
          res \in TransferResults :
         LET v == ValidateWithdrawal(accountId, amount)
             limited == hits + 1 > PaymentLimiterMax
             called == ~limited /\ v.status = 200
             answer == IF limited
                       THEN [status |-> 429, error |-> "Too many payment attempts"]
                       ELSE IF ~called \/ res = "ok" THEN v
                       ELSE TransferError(res)
         IN  /\ payout' = [accountId |-> accountId, amount |-> amount,
                           status |-> answer.status, error |-> answer.error,
                           called |-> called, limited |-> limited,
                           transferId |-> IF called /\ res = "ok"
                                          THEN "tr_new" ELSE "none"]
             /\ transferred' = IF called THEN transferred + 1 ELSE transferred
    /\ UNCHANGED <<ledger, hooks, secretKey, intent, created>>

NextPayout == ProcessWithdrawal

SpecPayout == Init /\ [][NextPayout]_vars

----------------------------------------------------------------------------
(* What the claims speak about *)

HandlerStatuses == {"paid", "failed"}

\* the withdrawal requests whose transfer reference is tid
Matching(tid) == {w \in WIds : withdrawal_requests[w].stripe_transfer_id = tid}

Owner(w) == ledger0.withdrawal_requests[w].user_id
Amount(w) == ledger0.withdrawal_requests[w].amount
Transfer(w) == ledger0.withdrawal_requests[w].stripe_transfer_id

\* the current ledger, as one value
Ledger ==
    [withdrawal_requests |-> withdrawal_requests,
     wallets |-> wallets,
     transactions |-> transactions]

\* every event handed to a handler so far was a (tid, status) event
OnlyDispatched(tid, status) ==
    \A t \in TransferIds, st \in HandlerStatuses :
        (t = tid /\ st = status) \/ dispatched[t][st] = 0

NoWrites ==
    /\ \A u \in Users : nwrites.wallets[u] = 0
    /\ \A w \in WIds : nwrites.withdrawal_requests[w] = 0
    /\ \A x \in XIds : nwrites.transactions[x] = 0

\* request s carries a verified transfer.updated event with this status
Carries(s, status) ==
    /\ req[s].event.type = "transfer.updated"
    /\ req[s].event.object.status = status

\* the failure reason the specification asks for
ExpectedReason(msg) == IF msg \in {NoMsg, ""} THEN "Transfer failed" ELSE msg

----------------------------------------------------------------------------
(* C1: for a withdrawal W with a wallet and no store failure, after any      *)
(* sequence of one or more failed events for W's transfer, delivered one     *)
(* after another, the owner's earnings are the initial earnings plus         *)
(* W.amount, added exactly once.                                             *)
C1_RefundedExactlyOnce ==
    \A w \in WIds :
        ( /\ Quiescent
          /\ faults = 0
          /\ Owner(w) \in DOMAIN ledger0.wallets
          /\ dispatched[Transfer(w)].failed >= 1
          /\ OnlyDispatched(Transfer(w), "failed") )
        => wallets[Owner(w)].earnings =
              ledger0.wallets[Owner(w)].earnings + Amount(w)

(* C2: over any sequence of one or more paid events for the same transfer,   *)
(* the status write to 'completed' is performed exactly once and no wallet   *)
(* row is written.                                                           *)
C2_CompletedWrittenOnce ==
    \A w \in WIds :
        ( /\ Quiescent
          /\ faults = 0
          /\ Owner(w) \in DOMAIN ledger0.wallets
          /\ dispatched[Transfer(w)].paid >= 1
          /\ OnlyDispatched(Transfer(w), "paid") )
        => /\ nwrites.withdrawal_requests[w] = 1
           /\ withdrawal_requests[w].status = "completed"
           /\ \A u \in Users : nwrites.wallets[u] = 0

(* C3: a verified transfer.updated event (paid or failed) whose transfer id  *)
(* matches no withdrawal request writes nothing to any table, its handler    *)
(* returns normally and the webhook answers {received: true}; while only     *)
(* such events were handled the ledger is the initial one.                   *)
C3_UnknownTransferNoWrite ==
    /\ \A s \in Slots :
         ( /\ \E st \in HandlerStatuses : Carries(s, st)
           /\ Matching(req[s].event.object.id) = {} )
         => /\ req[s].wrote = 0
            /\ req[s].pc \in {"paid_find", "failed_find", "done"}
            /\ req[s].pc = "done" =>
                 /\ req[s].response = Ack
                 /\ req[s].outcome \in {"lookup_miss", "lookup_error", "caught"}
    /\ ( \A t \in TransferIds, st \in HandlerStatuses :
            Matching(t) # {} => dispatched[t][st] = 0 )
       => Ledger = ledger0 /\ NoWrites

C3_Witness ==
    \E s \in Slots :
        /\ Carries(s, "failed")
        /\ Matching(req[s].event.object.id) = {}
        /\ req[s].pc = "done"
        /\ req[s].outcome = "lookup_miss"
        /\ req[s].response = Ack
        /\ Ledger = ledger0

(* C4: one failed event for a pending withdrawal W (amount a, reference T)   *)
(* whose owner's wallet holds e, every store call succeeding, ends with      *)
(* earnings e + a, W.status 'failed' and W.failure_reason the event's        *)
(* message, or 'Transfer failed' when it has none.                           *)
C4_FailedScenario ==
    \A s \in Slots, w \in WIds :
        ( /\ req[s].pc = "done"
          /\ Carries(s, "failed")
          /\ req[s].event.object.id = pre.withdrawal_requests[w].stripe_transfer_id
          /\ pre.withdrawal_requests[w].status = "pending"
          /\ pre.withdrawal_requests[w].user_id \in DOMAIN pre.wallets
          /\ req[s].outcome \notin FaultOutcomes )
        => LET u == pre.withdrawal_requests[w].user_id
           IN  /\ wallets[u].earnings =
                    pre.wallets[u].earnings + pre.withdrawal_requests[w].amount
               /\ withdrawal_requests[w].status = "failed"
               /\ withdrawal_requests[w].failure_reason =
                    ExpectedReason(req[s].event.object.failure_message)

C4_Witness ==
    \E s \in Slots :
        /\ req[s].pc = "done"
        /\ Carries(s, "failed")
        /\ req[s].event.object.id = "T1"
        /\ req[s].event.object.failure_message = "account_closed"
        /\ req[s].outcome = "ok"
        /\ pre.withdrawal_requests["W1"].status = "pending"
        /\ pre.wallets["U1"].earnings = 12000
        /\ wallets["U1"].earnings = 17000
        /\ withdrawal_requests["W1"].status = "failed"
        /\ withdrawal_requests["W1"].failure_reason = "account_closed"

(* C5: one paid event for a pending withdrawal W whose owner's wallet holds  *)
(* e, every store call succeeding, ends with W.status 'completed' and the    *)
(* earnings still e.                                                         *)
C5_PaidScenario ==
    \A s \in Slots, w \in WIds :
        ( /\ req[s].pc = "done"
          /\ Carries(s, "paid")
          /\ req[s].event.object.id = pre.withdrawal_requests[w].stripe_transfer_id
          /\ pre.withdrawal_requests[w].status = "pending"
          /\ pre.withdrawal_requests[w].user_id \in DOMAIN pre.wallets
          /\ req[s].outcome \notin FaultOutcomes )
        => /\ withdrawal_requests[w].status = "completed"
           /\ wallets = pre.wallets

C5_Witness ==
    \E s \in Slots :
        /\ req[s].pc = "done"
        /\ Carries(s, "paid")
        /\ req[s].event.object.id = "T1"
        /\ req[s].outcome = "ok"
        /\ pre.withdrawal_requests["W1"].status = "pending"
        /\ withdrawal_requests["W1"].status = "completed"
        /\ wallets["U1"].earnings = 12000

(* C6: a withdrawal request's status only moves pending -> completed or      *)
(* pending -> failed; once it is 'completed' or 'failed' no later event      *)
(* changes its status, failure reason or processed timestamp.                *)
C6_TerminalIsFinal ==
    [][\A w \in WIds :
         /\ withdrawal_requests'[w].status # withdrawal_requests[w].status
              => /\ withdrawal_requests[w].status = "pending"
                 /\ withdrawal_requests'[w].status \in {"completed", "failed"}
         /\ withdrawal_requests[w].status \in {"completed", "failed"}
              => withdrawal_requests'[w] = withdrawal_requests[w]]_vars

(* C7: an event (paid or failed) reconciled against a withdrawal request     *)
(* that is no longer 'pending' is a no-op: it writes nothing to the wallet,  *)
(* the withdrawal request or any transaction.                                *)
C7_NonPendingIsNoOp ==
    \A s \in Slots, w \in WIds :
        ( /\ \E st \in HandlerStatuses : Carries(s, st)
          /\ req[s].event.object.id = pre.withdrawal_requests[w].stripe_transfer_id
          /\ pre.withdrawal_requests[w].status # "pending" )
        => req[s].wrote = 0 /\ Ledger = pre

(* C8: two or more deliveries of a failed event for the same transfer,       *)
(* processed concurrently with their store calls interleaved in any order,   *)
(* leave the wallet credited with the amount exactly once.                   *)
C8_ConcurrentDuplicatesRefundOnce ==
    \A w \in WIds :
        ( /\ Quiescent
          /\ faults = 0
          /\ Owner(w) \in DOMAIN ledger0.wallets
          /\ dispatched[Transfer(w)].failed >= 2
          /\ OnlyDispatched(Transfer(w), "failed")
          /\ delivered = dispatched[Transfer(w)].failed
          /\ overlaps = delivered - 1 )
        => wallets[Owner(w)].earnings =
              ledger0.wallets[Owner(w)].earnings + Amount(w)

(* C9: failed events for two different transfers reconciled concurrently,    *)
(* in any interleaving, each have the effect they have alone: with both      *)
(* withdrawals owned by one user with earnings e the wallet ends at          *)
(* e + a1 + a2, and each request carries its own failure reason.             *)
C9_ConcurrentDifferentTransfers ==
    ( /\ Quiescent
      /\ faults = 0
      /\ delivered = 2
      /\ overlaps = 1
      /\ \A w \in WIds : /\ dispatched[Transfer(w)].failed = 1
                         /\ dispatched[Transfer(w)].paid = 0
      /\ Owner("W1") = Owner("W2")
      /\ Owner("W1") \in DOMAIN ledger0.wallets )
    => /\ wallets[Owner("W1")].earnings =
            ledger0.wallets[Owner("W1")].earnings + Amount("W1") + Amount("W2")
       /\ \A w \in WIds :
            /\ withdrawal_requests[w].status = "failed"
            /\ withdrawal_requests[w].failure_reason =
                 ExpectedReason(dispatched[Transfer(w)].msg)

(* C10: for every event that passed signature verification, whatever happens *)
(* in reconciliation (lookup miss, wallet miss, a rejected write, an         *)
(* exception thrown by a store call) the handler raises nothing to the       *)
(* webhook and the webhook answers {received: true}, never an error status.  *)
C10_AlwaysAcknowledged ==
    \A s \in Slots :
        req[s].event # NoEvent
        => /\ req[s].outcome # "raised"
           /\ req[s].response \in {"none", Ack}
           /\ req[s].pc = "done" <=> req[s].response = Ack

C10_Witness ==
    \E s \in Slots :
        /\ Carries(s, "failed")
        /\ req[s].pc = "done"
        /\ req[s].outcome = "caught"
        /\ req[s].response = Ack

(* C11: only a verified transfer.updated event with status paid or failed   *)
(* can change the ledger, paid going to the paid handler and failed to the  *)
(* failed handler; every other type, and transfer.updated with another      *)
(* status, leaves wallets, withdrawal requests and transactions unchanged   *)
(* and is acknowledged.                                                      *)
PaidPcs == {"paid_find", "paid_wallet", "paid_update", "paid_txn"}
FailedPcs == {"failed_find", "failed_wallet", "failed_refund", "failed_update",
              "failed_txn"}

C11_OnlyTransferUpdatedReconciles ==
    /\ \A s \in Slots :
         req[s].event # NoEvent =>
            IF Carries(s, "paid") THEN req[s].pc \in PaidPcs \cup {"done"}
            ELSE IF Carries(s, "failed") THEN req[s].pc \in FailedPcs \cup {"done"}
            ELSE /\ req[s].pc = "done"
                 /\ req[s].response = Ack
                 /\ req[s].outcome = "none"
                 /\ req[s].wrote = 0
                 /\ Ledger = pre
    /\ Ledger # pre => \E s \in Slots, st \in HandlerStatuses : Carries(s, st)
    /\ ( \A t \in TransferIds, st \in HandlerStatuses : dispatched[t][st] = 0 )
       => Ledger = ledger0 /\ NoWrites

C11_Witness ==
    \E s \in Slots :
        /\ req[s].event.type = "transfer.updated"
        /\ req[s].event.object.status = "pending"
        /\ req[s].event.object.id = "T1"
        /\ req[s].pc = "done"
        /\ req[s].response = Ack
        /\ delivered = 2
        /\ prev.type = "payout.failed"
        /\ Ledger = ledger0

(* C12: no handler runs and no ledger row is written for a webhook request   *)
(* that did not pass signature verification: a failed signature check is    *)
(* answered 400, and with no webhook secret configured the request is       *)
(* acknowledged with {received: true} without being dispatched.              *)
C12_UnverifiedNeverDispatched ==
    /\ \A s \in Slots :
         ( req[s].pc # "idle" /\ (~webhookSecret \/ ~req[s].sigOk) )
         => /\ req[s].pc = "done"
            /\ req[s].event = NoEvent
            /\ req[s].outcome = "none"
            /\ req[s].wrote = 0
            /\ req[s].response = IF webhookSecret THEN BadSignature ELSE Ack
    /\ ( ~webhookSecret \/ \A s \in Slots : ~req[s].sigOk )
       => Ledger = pre
    /\ ~webhookSecret => Ledger = ledger0 /\ NoWrites

C12_Witness ==
    \E s \in Slots :
        /\ webhookSecret
        /\ ~req[s].sigOk
        /\ req[s].pc = "done"
        /\ req[s].response = BadSignature
        /\ Ledger = ledger0

(* C13: applying the same verified transfer event twice in a row yields the  *)
(* same wallets, withdrawal statuses, failure reasons and transaction        *)
(* descriptions as applying it once, for paid and for failed events.         *)
Observed(l) ==
    [wallets |-> l.wallets,
     statuses |-> [w \in WIds |-> l.withdrawal_requests[w].status],
     reasons |-> [w \in WIds |-> l.withdrawal_requests[w].failure_reason],
     descriptions |-> [x \in XIds |-> l.transactions[x].description]]

C13_Idempotent ==
    \A s \in Slots :
        ( /\ req[s].pc = "done"
          /\ \E st \in HandlerStatuses : Carries(s, st)
          /\ prev = req[s].event
          /\ faults = 0 )
        => Observed(Ledger) = Observed(pre)

(* C14: POST /create-payment-intent calls the processor only when the      *)
(* secret key is configured, the amount is a number with 100 <= amount <=   *)
(* 100000 and userId is a non-empty string; a request the handler receives  *)
(* without these is answered with an error status (400, or 500 for a        *)
(* missing key) and the processor is not called.                             *)
ValidIntentRequest(i) ==
    /\ secretKey
    /\ i.amount.t = "number"
    /\ i.amount.n >= 100
    /\ i.amount.n =< 100000
    /\ i.userId.t = "string"
    /\ i.userId.s # ""

C14_ProcessorCalledOnlyWhenValid ==
    /\ created =< hits
    /\ hits = 0 => intent = NoIntent /\ created = 0
    /\ hits > 0 =>
         /\ intent.called => ValidIntentRequest(intent)
         /\ ~secretKey => created = 0
         /\ intent.limited => ~intent.called
         /\ ( ~intent.limited /\ ~ValidIntentRequest(intent) )
            => /\ ~intent.called
               /\ intent.status = IF secretKey THEN 400 ELSE 500
         /\ ( ~intent.limited /\ ValidIntentRequest(intent) ) => intent.called

C14_Witness ==
    /\ hits > 1
    /\ created = 1
    /\ intent.called
    /\ intent.amount = Num(100000)
    /\ intent.userId = Str("user_123")
    /\ intent.status = 200

\* the withdrawal requests that matched the event of slot s when its
\* delivery began
MatchedBefore(s) ==
    {w \in WIds : pre.withdrawal_requests[w].stripe_transfer_id
                    = req[s].event.object.id}

Handled(s) ==
    /\ req[s].pc = "done"
    /\ \E st \in HandlerStatuses : Carries(s, st)

(* C15: a rejected ledger write ends the handler: every later step is       *)
(* skipped and the write is not retried. A rejected refund leaves the       *)
(* request pending and the transaction untouched; a rejected status update  *)
(* leaves the transaction untouched.                                         *)
C15_RejectedWriteSkipsTheRest ==
    \A s \in Slots :
        /\ ( Handled(s) /\ req[s].outcome = "store_error" ) =>
              /\ transactions = pre.transactions
              /\ req[s].wrote =< 1
              /\ req[s].wrote = 0 => Ledger = pre
              /\ Carries(s, "paid") => req[s].wrote = 0
              /\ req[s].wrote = 1 =>
                    /\ withdrawal_requests = pre.withdrawal_requests
                    /\ \A w \in MatchedBefore(s) :
                          wallets[Owner(w)].earnings =
                              pre.wallets[Owner(w)].earnings + Amount(w)
        /\ ( delivered = 1 /\ req[s].pc # "idle" /\ faults > 0 ) =>
              /\ req[s].pc = "done"
              /\ req[s].outcome \in FaultOutcomes
              /\ faults = 1

C15_Witness ==
    \E s \in Slots :
        /\ Handled(s)
        /\ Carries(s, "failed")
        /\ req[s].outcome = "store_error"
        /\ req[s].wrote = 1
        /\ wallets # pre.wallets
        /\ \A w \in MatchedBefore(s) : withdrawal_requests[w].status = "pending"

(* C16: a failed transaction-description update does not undo the earlier   *)
(* steps (the status stays terminal and, for a failed transfer, the wallet  *)
(* stays credited), is not retried, and the handler returns normally.        *)
C16_DescriptionFailureKeepsEarlierSteps ==
    \A s \in Slots :
        ( Handled(s) /\ req[s].outcome = "txn_error" ) =>
            /\ req[s].response = Ack
            /\ transactions = pre.transactions
            /\ delivered = 1 => \A x \in XIds : nwrites.transactions[x] = 0
            /\ MatchedBefore(s) # {}
            /\ \A w \in MatchedBefore(s) :
                 /\ withdrawal_requests[w].processed_at = now
                 /\ IF Carries(s, "paid")
                    THEN /\ withdrawal_requests[w].status = "completed"
                         /\ req[s].wrote = 1
                         /\ wallets = pre.wallets
                    ELSE /\ withdrawal_requests[w].status = "failed"
                         /\ withdrawal_requests[w].failure_reason
                              = ExpectedReason(req[s].event.object.failure_message)
                         /\ req[s].wrote = 2
                         /\ wallets[Owner(w)].earnings =
                              pre.wallets[Owner(w)].earnings + Amount(w)

C16_Witness ==
    \E s \in Slots :
        /\ Handled(s)
        /\ Carries(s, "failed")
        /\ req[s].outcome = "txn_error"
        /\ req[s].response = Ack
        /\ \E w \in MatchedBefore(s) :
              /\ withdrawal_requests[w].status = "failed"
              /\ pre.withdrawal_requests[w].status = "pending"

(* C17: when the withdrawal request is found but its owner has no wallet,   *)
(* or the wallet lookup errors, both handlers abort before any write.        *)
WriteSteps ==
    {"paid_update", "paid_txn", "failed_refund", "failed_update", "failed_txn"}

C17_NoWalletNoWrite ==
    \A s \in Slots :
        /\ req[s].pc \in WriteSteps =>
              /\ req[s].wallet # NoRow
              /\ req[s].withdrawalRequest.user_id \in DOMAIN wallets
        /\ ( /\ Handled(s)
             /\ \E w \in MatchedBefore(s) :
                   pre.withdrawal_requests[w].user_id \notin DOMAIN pre.wallets )
           => /\ Ledger = pre
              /\ req[s].wrote = 0
              /\ req[s].response = Ack
              /\ req[s].outcome \in
                    {"wallet_miss", "wallet_error", "lookup_error", "caught"}
        /\ ( Handled(s) /\ req[s].outcome \in {"wallet_miss", "wallet_error"} )
           => /\ Ledger = pre
              /\ req[s].wrote = 0
              /\ req[s].response = Ack

C17_Witness ==
    \E s \in Slots :
        /\ Handled(s)
        /\ Carries(s, "failed")
        /\ req[s].outcome = "wallet_miss"
        /\ MatchedBefore(s) # {}
        /\ \A w \in MatchedBefore(s) : Owner(w) \notin DOMAIN wallets
        /\ Ledger = ledger0

(* C18: wallet earnings are changed only by the refund step of the failed   *)
(* handler, and only in the wallet of the request's owner; every other      *)
(* wallet and every other withdrawal request is left as it was, and no      *)
(* wallet, withdrawal-request or transaction row is added or removed.        *)
C18_OnlyTheOwnersWalletChanges ==
    [][/\ DOMAIN wallets' = DOMAIN wallets
       /\ DOMAIN withdrawal_requests' = DOMAIN withdrawal_requests
       /\ DOMAIN transactions' = DOMAIN transactions
       /\ \A x \in DOMAIN transactions :
             [transactions'[x] EXCEPT !.description = 0]
                = [transactions[x] EXCEPT !.description = 0]
       /\ wallets' # wallets =>
             \E s \in Slots :
                /\ req[s].pc = "failed_refund"
                /\ req'[s].pc = "failed_update"
                /\ \A u \in DOMAIN wallets :
                      IF u = req[s].withdrawalRequest.user_id
                      THEN wallets'[u] =
                             [wallets[u] EXCEPT !.earnings =
                                 req[s].wallet.earnings
                                    + req[s].withdrawalRequest.amount]
                      ELSE wallets'[u] = wallets[u]
       /\ withdrawal_requests' # withdrawal_requests =>
             \E s \in Slots :
                /\ req[s].pc \in {"paid_update", "failed_update"}
                /\ \A w \in WIds :
                      w # req[s].withdrawalRequest.id
                         => withdrawal_requests'[w] = withdrawal_requests[w]
      ]_vars

C18_Witness ==
    \E s \in Slots :
        /\ req[s].pc = "failed_update"
        /\ delivered = 1
        /\ req[s].withdrawalRequest.id = "W1"
        /\ DOMAIN wallets = {"U1", "U2"}
        /\ wallets["U1"].earnings = ledger0.wallets["U1"].earnings + Amount("W1")
        /\ wallets["U2"] = ledger0.wallets["U2"]

(* C19: in the failed handler the refund is written before the status       *)
(* update and the two are not atomic: 'wallet credited while the request is *)
(* still pending' is reachable, 'request failed while the wallet is not yet *)
(* credited' never is.                                                       *)
C19_NeverFailedBeforeCredited ==
    /\ \A s \in Slots :
         /\ req[s].pc \in {"failed_find", "failed_wallet", "failed_refund"}
              => withdrawal_requests = pre.withdrawal_requests
         /\ req[s].pc \in {"failed_update", "failed_txn"}
              => wallets[req[s].withdrawalRequest.user_id].earnings
                   = pre.wallets[req[s].withdrawalRequest.user_id].earnings
                       + req[s].withdrawalRequest.amount
         /\ Carries(s, "failed") =>
              \A w \in MatchedBefore(s) :
                 withdrawal_requests[w] # pre.withdrawal_requests[w]
                    => /\ withdrawal_requests[w].status = "failed"
                       /\ wallets[Owner(w)].earnings
                            = pre.wallets[Owner(w)].earnings + Amount(w)
    /\ \A w \in WIds :
         withdrawal_requests[w].status = "failed"
            => /\ Owner(w) \in DOMAIN wallets
               /\ nwrites.wallets[Owner(w)] > 0
               /\ wallets[Owner(w)].earnings
                    >= ledger0.wallets[Owner(w)].earnings + Amount(w)

C19_Witness ==
    \E s \in Slots :
        /\ req[s].pc = "failed_update"
        /\ faults = 0
        /\ delivered = 1
        /\ \E w \in MatchedBefore(s) :
              /\ withdrawal_requests[w].status = "pending"
              /\ wallets[Owner(w)].earnings
                   = ledger0.wallets[Owner(w)].earnings + Amount(w)

(* C20: every withdrawal request's status is one of pending, completed,     *)
(* failed, and a failure reason is present only while the status is         *)
(* 'failed', also after a paid event is applied to a request that earlier   *)
(* received a failed event.                                                  *)
C20_ReasonOnlyWhileFailed ==
    \A w \in WIds :
        /\ withdrawal_requests[w].status \in {"pending", "completed", "failed"}
        /\ withdrawal_requests[w].failure_reason # "null"
             => withdrawal_requests[w].status = "failed"

(* C21: with no store failure, in every state where no handler is           *)
(* mid-flight, the net amount credited to the owner's wallet on behalf of a *)
(* withdrawal W is 0 or exactly W.amount, it is W.amount exactly when W is  *)
(* 'failed', and wallet earnings are never negative.                         *)
NetCredit(w) ==
    wallets[Owner(w)].earnings - ledger0.wallets[Owner(w)].earnings

\* W is the only withdrawal of its owner, so every credit is on its behalf
SoleWithdrawal(w) ==
    /\ Owner(w) \in DOMAIN wallets
    /\ \A v \in WIds \ {w} : Owner(v) # Owner(w)

C21_NetCreditMatchesStatus ==
    /\ \A u \in DOMAIN wallets : wallets[u].earnings >= 0
    /\ \A w \in WIds :
         ( Quiescent /\ faults = 0 /\ SoleWithdrawal(w) )
         => /\ NetCredit(w) \in {0, Amount(w)}
            /\ NetCredit(w) = Amount(w)
                 <=> withdrawal_requests[w].status = "failed"

(* C22: reconciling an event for withdrawal W rewrites the description of   *)
(* W's own transaction only: the transactions of every other withdrawal,    *)
(* also of one of the same user with the same amount, keep their            *)
(* descriptions, and no transaction is created or deleted.                   *)
\* the transaction recorded when withdrawal w was requested
TransactionOf(w) == IF w = "W1" THEN "X1" ELSE "X2"

C22_OnlyOwnTransactionRewritten ==
    /\ DOMAIN transactions = DOMAIN ledger0.transactions
    /\ \A s \in Slots, w \in WIds :
         ( /\ \E st \in HandlerStatuses : Carries(s, st)
           /\ MatchedBefore(s) = {w} )
         => \A x \in XIds \ {TransactionOf(w)} :
               transactions[x].description = pre.transactions[x].description

(* C24: POST /stripe/process-withdrawal asks the processor for at most one   *)
(* transfer per request, and only when accountId is a non-empty string, the *)
(* amount is a positive number and round(amount * 100) >= 100; a request    *)
(* the handler receives without these is answered 400 with no processor     *)
(* call. The endpoint never writes to wallets, withdrawal_requests or       *)
(* transactions, so the returned transfer id is never recorded as a         *)
(* withdrawal request's transfer reference.                                  *)
ValidWithdrawalRequest(p) ==
    /\ p.accountId.t = "string"
    /\ p.accountId.s # ""
    /\ p.amount.t = "number"
    /\ p.amount.n > 0
    /\ (p.amount.n + 5) \div 10 >= 100

C24_TransferOnlyWhenValidAndNoLedgerWrite ==
    /\ transferred =< hits
    /\ Ledger = ledger0
    /\ NoWrites
    /\ hits = 0 => payout = NoPayout /\ transferred = 0
    /\ hits > 0 =>
         /\ payout.called => ValidWithdrawalRequest(payout)
         /\ payout.limited => ~payout.called
         /\ ( ~payout.limited /\ ~ValidWithdrawalRequest(payout) )
            => ~payout.called /\ payout.status = 400
         /\ ( ~payout.limited /\ ValidWithdrawalRequest(payout) ) => payout.called
         /\ ~payout.called => payout.transferId = "none"
         /\ \A w \in WIds :
               withdrawal_requests[w].stripe_transfer_id # payout.transferId

C24_Witness ==
    /\ hits > 1
    /\ transferred = 1
    /\ payout.called
    /\ payout.amount = Dollars(995)
    /\ payout.accountId = Str("acct_1")
    /\ payout.status = 200
    /\ payout.transferId = "tr_new"
    /\ Ledger = ledger0

\* slot s is inside a handler, waiting on a store call
Busy(s) == req[s].pc \in PaidPcs \cup FailedPcs

(* C23: for a verified transfer.updated event the acknowledgment is sent    *)
(* only after the invoked handler has finished all of its ledger reads and  *)
(* writes, a stalled store call delays the acknowledgment of that delivery  *)
(* only, and every webhook request receives exactly one response.            *)
C23_AckAfterHandler ==
    /\ [](\A s \in Slots :
            /\ Busy(s) => req[s].response = "none"
            /\ req[s].pc = "idle" => req[s].response = "none"
            /\ req[s].pc = "done" => req[s].response \in {Ack, BadSignature})
    /\ [][/\ \A s \in Slots :
               req'[s].response # req[s].response
                  => \/ req[s].response = "none" /\ req'[s].pc = "done"
                     \/ req[s].pc = "done" /\ delivered' = delivered + 1
          /\ <<withdrawal_requests, wallets, transactions>>'
                # <<withdrawal_requests, wallets, transactions>>
               => \E s \in Slots :
                     /\ Busy(s)
                     /\ req[s].response = "none"
                     /\ req'[s] # req[s]
         ]_vars
    /\ \A s \in Slots : Busy(s) ~> (req[s].response = Ack)

C23_Witness ==
    /\ delivered = 2
    /\ req[1].pc = "failed_find"
    /\ req[1].response = "none"
    /\ req[2].pc = "done"
    /\ Carries(2, "paid")
    /\ req[2].outcome = "ok"
    /\ req[2].wrote = 2
    /\ req[2].response = Ack

(* C25: provided every store call eventually returns, every webhook         *)
(* delivery eventually completes and is answered; a reconciliation makes a  *)
(* bounded number of store calls (at most 2 reads and 2 writes on the paid  *)
(* path, 2 reads and 3 writes on the failed path), has no loop or retry,    *)
(* and never waits on another delivery.                                      *)
\* where a handler can be after the store call it waits on at pc returns
After(pc) ==
    CASE pc = "paid_find" -> {"paid_wallet", "done"}
      [] pc = "paid_wallet" -> {"paid_update", "done"}
      [] pc = "paid_update" -> {"paid_txn", "done"}
      [] pc = "paid_txn" -> {"done"}
      [] pc = "failed_find" -> {"failed_wallet", "done"}
      [] pc = "failed_wallet" -> {"failed_refund", "done"}
      [] pc = "failed_refund" -> {"failed_update", "done"}
      [] pc = "failed_update" -> {"failed_txn", "done"}
      [] pc = "failed_txn" -> {"done"}
      [] OTHER -> {}

\* the writes a handler has made when it waits at pc
WritesBefore(pc) ==
    CASE pc \in {"paid_txn", "failed_update"} -> 1
      [] pc = "failed_txn" -> 2
      [] OTHER -> 0

C25_EveryDeliveryCompletes ==
    /\ [](\A s \in Slots :
            /\ Busy(s) => /\ ENABLED Step(s)
                          /\ req[s].wrote = WritesBefore(req[s].pc)
            /\ Carries(s, "paid") => req[s].wrote =< 2
            /\ Carries(s, "failed") => req[s].wrote =< 3)
    /\ [][/\ delivered' = delivered
               => \E s \in Slots :
                     /\ Busy(s)
                     /\ req'[s].pc \in After(req[s].pc)
                     /\ req'[s].wrote \in {req[s].wrote, req[s].wrote + 1}
                     /\ \A t \in Slots \ {s} : req'[t] = req[t]
          /\ faults' # faults
               => \E s \in Slots : Busy(s) /\ req'[s].pc = "done"
         ]_vars
    /\ \A s \in Slots :
          Busy(s) ~> (req[s].pc = "done" /\ req[s].response = Ack)

C25_Witness ==
    /\ delivered = 2
    /\ overlaps = 1
    /\ faults = 1
    /\ \A s \in Slots : req[s].pc = "done" /\ req[s].response = Ack
    /\ Carries(1, "failed") /\ req[1].wrote = 3 /\ req[1].outcome = "ok"
    /\ Carries(2, "paid") /\ req[2].wrote = 1 /\ req[2].outcome = "txn_error"

====
